---- MODULE Spec2Model ----
(***************************************************************************)
(* The App component of the PDF signer (src/src/App.jsx; the file          *)
(* src/unnamed/part_000 is the same component with comments): its four     *)
(* pieces of React state, the signature surface behind the sigCanvas ref,  *)
(* the FileReaders whose onload has not fired yet, and the processPdf      *)
(* activations suspended at one of their four awaits.                      *)
(*                                                                         *)
(* Lengths on the page are kept in fixed point, in units of 1/ScaleDen of  *)
(* a page unit, so that signatureImage.scale(0.5) is exact for odd raster  *)
(* sizes as it is in JavaScript's doubles.                                 *)
(***************************************************************************)
EXTENDS Integers, Sequences, FiniteSets

VARIABLES
    pdfFile,       \* useState(null): the loaded document's bytes, or Null
    fileName,      \* useState(""): the loaded document's name
    signedPdfUrl,  \* useState(null): the object URL of the signed blob, or Null
    errorMsg,      \* useState(""): the message shown in the red box
    surface,       \* the SignatureCanvas behind sigCanvas.current
    reads,         \* FileReaders started by handleFileChange, not yet settled
    newest,        \* the file of the latest valid selection while a read is
                   \* pending, Null while none is: kept for the order of
                   \* selections, the code has no such field
    attempts,      \* processPdf activations in flight, each at its await
    event          \* the handler or callback that ran last, and how it ended

vars == <<pdfFile, fileName, signedPdfUrl, errorMsg, surface, reads, newest, attempts,
          event>>

state == <<pdfFile, fileName, signedPdfUrl, errorMsg>>

----------------------------------------------------------------------------
(* Bounds of the model: the code limits neither number *)

\* FileReaders pending at once.
MaxReads == 1

\* processPdf activations in flight at once.
MaxAttempts == 1

\* FileReaders pending at once where the order of their completions is
\* what is looked at.
MaxPendingReads == 2

----------------------------------------------------------------------------
(* Values *)

Null == [null |-> TRUE]

PdfMime == "application/pdf"

MsgInvalidFile == "Please upload a valid PDF file."

MsgNoDocument == "Please upload a PDF first."

MsgEmptySignature == "Please draw a signature first."

MsgComposition == "An error occurred while creating the PDF."

ScaleNum == 1

ScaleDen == 2

Margin == 20

\* The files the user can pick.  bytes is what readAsArrayBuffer delivers:
\* body tells two byte buffers apart, parseable says whether
\* PDFDocument.load accepts them, pages and width describe the parsed
\* document.  c.pdf parses to a document without pages; d.pdf has the PDF
\* MIME type and bytes that are no PDF.
FileCatalog ==
    { [name |-> "a.pdf", type |-> PdfMime,
       bytes |-> [body |-> "A", parseable |-> TRUE, pages |-> 2, width |-> 612]],
      [name |-> "c.pdf", type |-> PdfMime,
       bytes |-> [body |-> "C", parseable |-> TRUE, pages |-> 0, width |-> 0]],
      [name |-> "d.pdf", type |-> PdfMime,
       bytes |-> [body |-> "D", parseable |-> FALSE, pages |-> 0, width |-> 0]],
      [name |-> "e.png", type |-> "image/png",
       bytes |-> [body |-> "E", parseable |-> FALSE, pages |-> 0, width |-> 0]] }

\* e.target.files: empty when the picker is cancelled, else the one file.
Selections == {<<>>} \cup {<<f>> : f \in FileCatalog}

\* The ink's bounding box after a stroke, in canvas pixels (the canvas is
\* 500 by 200).
InkWidths == {300}

InkHeights == {40}

BlankSurface == [empty |-> TRUE, w |-> 0, h |-> 0]

NoRaster == [w |-> 0, h |-> 0, blank |-> TRUE]

Slots == 1..MaxAttempts

Ev(op, outcome, cause) == [op |-> op, outcome |-> outcome, cause |-> cause]

----------------------------------------------------------------------------
(* Pure helpers *)

RemoveAt(s, i) == SubSeq(s, 1, i - 1) \o SubSeq(s, i + 1, Len(s))

\* A page length in fixed point.
ToFixed(n) == n * ScaleDen

\* signatureImage.scale(0.5): the raster's size times the factor.
ScaleDims(raster) == [width |-> raster.w * ScaleNum, height |-> raster.h * ScaleNum]

\* Mutant of Placement: x is clamped to the page.
Placement_Clamped(width, sigDims) ==
    [x |-> IF ToFixed(width) - sigDims.width - ToFixed(Margin) < 0
           THEN 0
           ELSE ToFixed(width) - sigDims.width - ToFixed(Margin),
     y |-> ToFixed(Margin),
     width |-> sigDims.width,
     height |-> sigDims.height]

\* The options object handed to firstPage.drawImage.
Placement(width, sigDims) ==
    [x |-> ToFixed(width) - sigDims.width - ToFixed(Margin),
     y |-> ToFixed(Margin),
     width |-> sigDims.width,
     height |-> sigDims.height]

\* pages[0], as an index into the sequence of pages.
FirstPage == 1

\* page.drawImage(image, options): the overlay the page gets.
DrawImage(page, options) ==
    [page |-> page, x |-> options.x, y |-> options.y,
     width |-> options.width, height |-> options.height]

\* getTrimmedCanvas(): the canvas cropped to the ink's bounding box.
TrimmedRaster(s) == [w |-> s.w, h |-> s.h, blank |-> FALSE]

\* What trimming a canvas without ink yields when it does not throw: the
\* crop bounds are all missing and one transparent pixel is left.
BlankRaster == [w |-> 1, h |-> 1, blank |-> TRUE]

\* Mutant of SignedBlob: only the page drawn on is written out.
SignedBlob_FirstPageOnly(a) == [src |-> a.doc, pages |-> 1, images |-> a.images]

\* The blob behind the object URL: the serialized document.
SignedBlob(a) == [src |-> a.doc, pages |-> a.doc.pages, images |-> a.images]

\* Mutant of SignEnabled: the button is never disabled.
SignEnabled_Always == TRUE

\* disabled={!pdfFile} on the Sign PDF button.
SignEnabled == pdfFile # Null

\* The activations in flight, in the order they were started.
Running == 1..Len(attempts)

----------------------------------------------------------------------------
(* Initial state: the component as first rendered *)

Init ==
    /\ pdfFile = Null
    /\ fileName = ""
    /\ signedPdfUrl = Null
    /\ errorMsg = ""
    /\ surface = BlankSurface
    /\ reads = <<>>
    /\ newest = Null
    /\ attempts = <<>>
    /\ event = Ev("mount", "none", "none")

----------------------------------------------------------------------------
(* Handlers and callbacks *)

\* Mutant of HandleFileChange: the test is "if (file)", the MIME type is
\* not looked at.
HandleFileChange_AnyType(files) ==
    IF Len(files) > 0
    THEN /\ Len(reads) < MaxReads
         /\ reads' = Append(reads, files[1])
         /\ newest' = files[1]
         /\ event' = Ev("handleFileChange", "reading", "none")
         /\ UNCHANGED <<pdfFile, fileName, signedPdfUrl, errorMsg, surface, attempts>>
    ELSE /\ errorMsg' = MsgInvalidFile
         /\ event' = Ev("handleFileChange", "invalid", "none")
         /\ UNCHANGED <<pdfFile, fileName, signedPdfUrl, surface, reads, newest, attempts>>

\* handleFileChange(e), with e.target.files = files, in a model that lets
\* at most cap reads be pending.
HandleFileChangeWithin(files, cap) ==
    IF Len(files) > 0 /\ files[1].type = PdfMime
    THEN /\ Len(reads) < cap
         /\ reads' = Append(reads, files[1])
         /\ newest' = files[1]
         /\ event' = Ev("handleFileChange", "reading", "none")
         /\ UNCHANGED <<pdfFile, fileName, signedPdfUrl, errorMsg, surface, attempts>>
    ELSE /\ errorMsg' = MsgInvalidFile
         /\ event' = Ev("handleFileChange", "invalid", "none")
         /\ UNCHANGED <<pdfFile, fileName, signedPdfUrl, surface, reads, newest, attempts>>

\* handleFileChange(e), with e.target.files = files.
HandleFileChange(files) == HandleFileChangeWithin(files, MaxReads)

\* The controller state of section 4.4 that the four fields stand for.
Phase ==
    IF signedPdfUrl # Null THEN "Signed"
    ELSE IF errorMsg # "" THEN "Failed"
    ELSE IF pdfFile # Null THEN "DocumentLoaded"
    ELSE "Idle"

\* Mutant of ReaderOnLoad: setSignedPdfUrl(null) is left out.
ReaderOnLoad_KeepsUrl(i) ==
    /\ i \in 1..Len(reads)
    /\ pdfFile' = reads[i].bytes
    /\ fileName' = reads[i].name
    /\ errorMsg' = ""
    /\ reads' = RemoveAt(reads, i)
    /\ newest' = IF Len(reads) = 1 THEN Null ELSE newest
    /\ event' = Ev("onload", Phase, "none")
    /\ UNCHANGED <<signedPdfUrl, surface, attempts>>

\* reader.onload of the i-th pending reader: the four setters, one render.
\* The event keeps the phase the load replaced.
ReaderOnLoad(i) ==
    /\ i \in 1..Len(reads)
    /\ pdfFile' = reads[i].bytes
    /\ fileName' = reads[i].name
    /\ signedPdfUrl' = Null
    /\ errorMsg' = ""
    /\ reads' = RemoveAt(reads, i)
    /\ newest' = IF Len(reads) = 1 THEN Null ELSE newest
    /\ event' = Ev("onload", Phase, "none")
    /\ UNCHANGED <<surface, attempts>>

\* The i-th pending read fails: the reader has no onerror handler.
ReaderOnError(i) ==
    /\ i \in 1..Len(reads)
    /\ reads' = RemoveAt(reads, i)
    /\ newest' = IF Len(reads) = 1 THEN Null ELSE newest
    /\ event' = Ev("onerror", "none", "none")
    /\ UNCHANGED <<pdfFile, fileName, signedPdfUrl, errorMsg, surface, attempts>>

\* The user draws a stroke on the SignatureCanvas: the ink's bounding box
\* can only grow.
Draw(w, h) ==
    /\ w >= surface.w
    /\ h >= surface.h
    /\ surface' = [empty |-> FALSE, w |-> w, h |-> h]
    /\ event' = Ev("draw", "none", "none")
    /\ UNCHANGED <<pdfFile, fileName, signedPdfUrl, errorMsg, reads, newest, attempts>>

\* Mutant of ClearSignature: the handler resets the message as well.
ClearSignature_ResetsMessage ==
    /\ surface' = BlankSurface
    /\ errorMsg' = ""
    /\ event' = Ev("clearSignature",
                   IF event.op = "clearSignature" THEN "again" ELSE "first", "none")
    /\ UNCHANGED <<pdfFile, fileName, signedPdfUrl, reads, newest, attempts>>

\* clearSignature(): sigCanvas.current.clear().
ClearSignature ==
    /\ surface' = BlankSurface
    /\ event' = Ev("clearSignature",
                   IF event.op = "clearSignature" THEN "again" ELSE "first", "none")
    /\ UNCHANGED <<pdfFile, fileName, signedPdfUrl, errorMsg, reads, newest, attempts>>

\* Mutant of ProcessPdf: the isEmpty() check is left out.
ProcessPdf_NoEmptyCheck ==
    IF pdfFile = Null
    THEN /\ errorMsg' = MsgNoDocument
         /\ event' = Ev("processPdf", "noDocument", "none")
         /\ UNCHANGED <<pdfFile, fileName, signedPdfUrl, surface, reads, newest, attempts>>
    ELSE /\ Len(attempts) < MaxAttempts
         /\ attempts' = Append(attempts,
                            [pc |-> "load", doc |-> pdfFile,
                             raster |-> NoRaster, images |-> <<>>])
         /\ event' = Ev("processPdf", "pending", "none")
         /\ UNCHANGED <<pdfFile, fileName, signedPdfUrl, errorMsg, surface, reads, newest>>

\* processPdf() up to its first await: the two checks, then
\* PDFDocument.load(pdfFile) is started on the bytes the closure holds (the
\* handler is the one of the latest render, so they are the current
\* pdfFile; the activation keeps them in doc whatever is loaded later).
ProcessPdf ==
    IF pdfFile = Null
    THEN /\ errorMsg' = MsgNoDocument
         /\ event' = Ev("processPdf", "noDocument", "none")
         /\ UNCHANGED <<pdfFile, fileName, signedPdfUrl, surface, reads, newest, attempts>>
    ELSE IF surface.empty
    THEN /\ errorMsg' = MsgEmptySignature
         /\ event' = Ev("processPdf", "emptySignature", "none")
         /\ UNCHANGED <<pdfFile, fileName, signedPdfUrl, surface, reads, newest, attempts>>
    ELSE /\ Len(attempts) < MaxAttempts
         /\ attempts' = Append(attempts,
                            [pc |-> "load", doc |-> pdfFile,
                             raster |-> NoRaster, images |-> <<>>])
         /\ event' = Ev("processPdf", "pending", "none")
         /\ UNCHANGED <<pdfFile, fileName, signedPdfUrl, errorMsg, surface, reads, newest>>

\* A click on the Sign PDF button.
ClickSign ==
    /\ SignEnabled
    /\ ProcessPdf

\* Mutant of Catch: the message shown is the error's own.
Catch_ShowsCause(i, cause) ==
    /\ errorMsg' = cause
    /\ attempts' = RemoveAt(attempts, i)
    /\ event' = Ev("processPdf", "failed", cause)
    /\ UNCHANGED <<pdfFile, fileName, signedPdfUrl, surface, reads, newest>>

\* The catch block of attempt i: console.error(err), the generic message.
Catch(i, cause) ==
    /\ errorMsg' = MsgComposition
    /\ attempts' = RemoveAt(attempts, i)
    /\ event' = Ev("processPdf", "failed", cause)
    /\ UNCHANGED <<pdfFile, fileName, signedPdfUrl, surface, reads, newest>>

\* Attempt i moves on to its next await.
Continue(i, pc, raster, images) ==
    /\ attempts' = [attempts EXCEPT ![i] =
                       [pc |-> pc, doc |-> attempts[i].doc,
                        raster |-> raster, images |-> images]]
    /\ event' = Ev("processPdf", "pending", "none")
    /\ UNCHANGED <<pdfFile, fileName, signedPdfUrl, errorMsg, surface, reads, newest>>

\* await PDFDocument.load(pdfFile) settles; on success the surface is
\* exported as it is now and the fetch of the data URL is started.
\* Trimming a surface without ink either throws or yields BlankRaster.
LoadSettles(i, trimThrows) ==
    /\ i \in Running
    /\ attempts[i].pc = "load"
    /\ IF ~attempts[i].doc.parseable
       THEN Catch(i, "parse")
       ELSE IF surface.empty
       THEN IF trimThrows
            THEN Catch(i, "export")
            ELSE Continue(i, "fetch", BlankRaster, <<>>)
       ELSE /\ ~trimThrows
            /\ Continue(i, "fetch", TrimmedRaster(surface), <<>>)

\* Mutant of FetchSettles: a failed fetch is retried, not thrown.
FetchSettles_Retries(i, ok) ==
    /\ i \in Running
    /\ attempts[i].pc = "fetch"
    /\ IF ok
       THEN Continue(i, "embed", attempts[i].raster, <<>>)
       ELSE Continue(i, "fetch", attempts[i].raster, <<>>)

\* await fetch(signatureDataUrl).then(res => res.arrayBuffer()) settles;
\* on success embedPng is started.
FetchSettles(i, ok) ==
    /\ i \in Running
    /\ attempts[i].pc = "fetch"
    /\ IF ok
       THEN Continue(i, "embed", attempts[i].raster, <<>>)
       ELSE Catch(i, "fetch")

\* Mutant of EmbedSettles: a document without pages is saved as it is,
\* nothing is drawn and nothing is thrown.
EmbedSettles_SkipsMissingPage(i, ok) ==
    /\ i \in Running
    /\ attempts[i].pc = "embed"
    /\ IF ~ok
       THEN Catch(i, "embed")
       ELSE IF attempts[i].doc.pages = 0
       THEN Continue(i, "save", attempts[i].raster, attempts[i].images)
       ELSE Continue(i, "save", attempts[i].raster,
                     Append(attempts[i].images,
                            DrawImage(FirstPage,
                                      Placement(attempts[i].doc.width,
                                                ScaleDims(attempts[i].raster)))))

\* Mutant of EmbedSettles: the image is drawn on the document the previous
\* result was saved from, not on a fresh parse of pdfFile.
EmbedSettles_DrawsOnPrevious(i, ok) ==
    /\ i \in Running
    /\ attempts[i].pc = "embed"
    /\ IF ~ok
       THEN Catch(i, "embed")
       ELSE IF attempts[i].doc.pages = 0
       THEN Catch(i, "firstPage")
       ELSE Continue(i, "save", attempts[i].raster,
                     Append(IF signedPdfUrl # Null /\ signedPdfUrl.src = attempts[i].doc
                            THEN signedPdfUrl.images
                            ELSE attempts[i].images,
                            DrawImage(FirstPage,
                                      Placement(attempts[i].doc.width,
                                                ScaleDims(attempts[i].raster)))))

\* await pdfDoc.embedPng(bytes) settles; on success pages[0] is taken, the
\* image is drawn on it and save is started.  pages[0] of a document
\* without pages is undefined and getSize() on it throws.
EmbedSettles(i, ok) ==
    /\ i \in Running
    /\ attempts[i].pc = "embed"
    /\ IF ~ok
       THEN Catch(i, "embed")
       ELSE IF attempts[i].doc.pages = 0
       THEN Catch(i, "firstPage")
       ELSE Continue(i, "save", attempts[i].raster,
                     Append(attempts[i].images,
                            DrawImage(FirstPage,
                                      Placement(attempts[i].doc.width,
                                                ScaleDims(attempts[i].raster)))))

\* await pdfDoc.save() settles; on success the blob's URL is published.
SaveSettles(i, ok) ==
    /\ i \in Running
    /\ attempts[i].pc = "save"
    /\ IF ok
       THEN /\ signedPdfUrl' = SignedBlob(attempts[i])
            /\ errorMsg' = ""
            /\ attempts' = RemoveAt(attempts, i)
            /\ event' = Ev("processPdf", "signed", "none")
            /\ UNCHANGED <<pdfFile, fileName, surface, reads, newest>>
       ELSE Catch(i, "save")

----------------------------------------------------------------------------

Next ==
    \/ \E files \in Selections : HandleFileChange(files)
    \/ \E i \in 1..MaxReads : ReaderOnLoad(i)
    \/ \E i \in 1..MaxReads : ReaderOnError(i)
    \/ \E w \in InkWidths, h \in InkHeights : Draw(w, h)
    \/ ClearSignature
    \/ ClickSign
    \/ \E i \in Slots, trimThrows \in BOOLEAN : LoadSettles(i, trimThrows)
    \/ \E i \in Slots, ok \in BOOLEAN : FetchSettles(i, ok)
    \/ \E i \in Slots, ok \in BOOLEAN : EmbedSettles(i, ok)
    \/ \E i \in Slots, ok \in BOOLEAN : SaveSettles(i, ok)

Spec == Init /\ [][Next]_vars

\* The call activation i awaits returns or throws, and the code after the
\* await runs.
Settles(i) ==
    \E b \in BOOLEAN :
        \/ LoadSettles(i, b)
        \/ FetchSettles(i, b)
        \/ EmbedSettles(i, b)
        \/ SaveSettles(i, b)

\* The same behaviours under the assumption that every awaited library call
\* of every activation returns or throws: the continuation of an activation
\* runs once the promise it awaits has settled.
SpecLive ==
    /\ Spec
    /\ \A i \in Slots : WF_vars(Settles(i))

----------------------------------------------------------------------------
(* C1.  After any processPdf attempt has returned (rejected for a missing  *)
(* document, rejected for an empty signature, failed in composition, or    *)
(* succeeded), at most one of signedPdfUrl and errorMsg is non-empty.      *)

Returned == event.op = "processPdf" /\ event.outcome # "pending"

C1_AtMostOneAfterAttempt ==
    Returned => ~(signedPdfUrl # Null /\ errorMsg # "")

----------------------------------------------------------------------------
(* C2.  processPdf called with a document loaded and an empty surface      *)
(* starts no composition (no activation reaches PDFDocument.load), sets    *)
(* errorMsg to "Please draw a signature first." and leaves pdfFile,        *)
(* fileName and signedPdfUrl as they were.                                 *)

C2_EmptySignatureRejected ==
    [][(ProcessPdf /\ pdfFile # Null /\ surface.empty)
         => /\ attempts' = attempts
            /\ errorMsg' = "Please draw a signature first."
            /\ UNCHANGED <<pdfFile, fileName, signedPdfUrl>>]_vars

\* The rejection happened with an earlier signed result still on display.
C2_Witness ==
    /\ event = Ev("processPdf", "emptySignature", "none")
    /\ pdfFile # Null
    /\ signedPdfUrl # Null
    /\ attempts = <<>>

----------------------------------------------------------------------------
(* C3.  In every reachable state, selecting a file whose MIME type is not  *)
(* application/pdf, or selecting no file, starts no file read, sets        *)
(* errorMsg to "Please upload a valid PDF file." and leaves pdfFile,       *)
(* fileName and signedPdfUrl as they were.                                 *)

NotAPdf(files) == Len(files) = 0 \/ files[1].type # "application/pdf"

C3_InvalidSelectionKeepsDocument ==
    [][\A files \in Selections :
         (NotAPdf(files) /\ HandleFileChange(files))
           => /\ reads' = reads
              /\ errorMsg' = "Please upload a valid PDF file."
              /\ UNCHANGED <<pdfFile, fileName, signedPdfUrl>>]_vars

\* An invalid selection made with a document loaded and signed.
C3_Witness ==
    /\ event = Ev("handleFileChange", "invalid", "none")
    /\ pdfFile # Null
    /\ fileName # ""
    /\ signedPdfUrl # Null
    /\ errorMsg = MsgInvalidFile

----------------------------------------------------------------------------
(* C4.  When the read of a selected PDF file completes, one step replaces  *)
(* pdfFile and fileName by that file's bytes and name, sets signedPdfUrl   *)
(* to null and errorMsg to empty, whatever the state before; no step       *)
(* changes pdfFile or fileName in any other way, so no state shows only    *)
(* some of the four fields changed.                                        *)

C4_LoadIsAtomic ==
    [][/\ \A i \in 1..Len(reads) :
            ReaderOnLoad(i)
              => /\ pdfFile' = reads[i].bytes
                 /\ fileName' = reads[i].name
                 /\ signedPdfUrl' = Null
                 /\ errorMsg' = ""
       /\ (pdfFile' # pdfFile \/ fileName' # fileName)
            => /\ \E i \in 1..Len(reads) :
                    pdfFile' = reads[i].bytes /\ fileName' = reads[i].name
               /\ signedPdfUrl' = Null
               /\ errorMsg' = ""]_vars

\* A load that replaced a signed document.
C4_Witness ==
    /\ event = Ev("onload", "Signed", "none")
    /\ \E f \in FileCatalog : pdfFile = f.bytes /\ fileName = f.name
    /\ signedPdfUrl = Null
    /\ errorMsg = ""

----------------------------------------------------------------------------
(* The placement on its own: one activation that has parsed a one-page     *)
(* document of any of these page widths and exported ink of any of these   *)
(* sizes, and is about to draw.                                            *)

GeoPageWidths == {1, 100, 170, 171, 612}

GeoInkWidths == {1, 25, 300, 301, 500}

GeoInkHeights == {1, 40, 200}

InitGeometry ==
    \E W \in GeoPageWidths, rw \in GeoInkWidths, rh \in GeoInkHeights :
        /\ pdfFile = [body |-> "G", parseable |-> TRUE, pages |-> 1, width |-> W]
        /\ fileName = "g.pdf"
        /\ signedPdfUrl = Null
        /\ errorMsg = ""
        /\ surface = [empty |-> FALSE, w |-> rw, h |-> rh]
        /\ reads = <<>>
        /\ newest = Null
        /\ attempts = <<[pc |-> "embed", doc |-> pdfFile,
                          raster |-> TrimmedRaster(surface), images |-> <<>>]>>
        /\ event = Ev("processPdf", "pending", "none")

NextGeometry ==
    \/ \E ok \in BOOLEAN : EmbedSettles(1, ok)
    \/ \E ok \in BOOLEAN : SaveSettles(1, ok)

SpecGeometry == InitGeometry /\ [][NextGeometry]_vars

----------------------------------------------------------------------------
(* Steps of one activation, told apart by what the awaited call did *)

\* The signature the activation composes has ink: the surface, while the
\* export is still ahead, and the exported raster afterwards.
Inked(i) ==
    IF attempts[i].pc = "load" THEN ~surface.empty ELSE ~attempts[i].raster.blank

\* The awaited call of activation i returns and nothing is thrown by the
\* library or by the export.
CallReturns(i) ==
    \/ LoadSettles(i, FALSE)
    \/ FetchSettles(i, TRUE)
    \/ EmbedSettles(i, TRUE)
    \/ SaveSettles(i, TRUE)

\* Activation i moves to its next await, or publishes a result with the
\* page count of the document it was started on.
StillRunning(i, pc) ==
    /\ Len(attempts') = Len(attempts)
    /\ attempts'[i].pc = pc
    /\ attempts'[i].doc = attempts[i].doc

Advances(i) ==
    CASE attempts[i].pc = "load" -> StillRunning(i, "fetch")
      [] attempts[i].pc = "fetch" -> StillRunning(i, "embed")
      [] attempts[i].pc = "embed" -> StillRunning(i, "save")
      [] attempts[i].pc = "save" ->
            /\ attempts' = RemoveAt(attempts, i)
            /\ signedPdfUrl' # Null
            /\ errorMsg' = ""
            /\ signedPdfUrl'.src = attempts[i].doc
            /\ signedPdfUrl'.pages = attempts[i].doc.pages

\* A composition step of activation i throws.
StepFails(i) ==
    \/ ~attempts[i].doc.parseable /\ LoadSettles(i, FALSE)
    \/ LoadSettles(i, TRUE)
    \/ FetchSettles(i, FALSE)
    \/ EmbedSettles(i, FALSE)
    \/ attempts[i].doc.pages = 0 /\ EmbedSettles(i, TRUE)
    \/ SaveSettles(i, FALSE)

----------------------------------------------------------------------------
(* C5.  As claimed: for every loaded parseable document D and every        *)
(* non-empty signature S, processPdf succeeds (every step whose awaited    *)
(* call returns moves on, and the last one leaves signedPdfUrl non-null,   *)
(* errorMsg empty and a result with D's page count).                       *)

C5_Original ==
    [][\A i \in Running :
         (attempts[i].doc.parseable /\ Inked(i)
            /\ CallReturns(i))
           => Advances(i)]_vars

(* C5 as amended: the same for every loaded parseable document D that has  *)
(* at least one page.                                                      *)

C5_SucceedsWithAPage ==
    [][\A i \in Running :
         (attempts[i].doc.parseable /\ Inked(i)
            /\ attempts[i].doc.pages >= 1 /\ CallReturns(i))
           => Advances(i)]_vars

\* A two-page document signed with an inked signature.
C5_Witness ==
    /\ event = Ev("processPdf", "signed", "none")
    /\ signedPdfUrl # Null
    /\ signedPdfUrl.src.parseable
    /\ signedPdfUrl.pages = 2
    /\ Len(signedPdfUrl.images) = 1
    /\ signedPdfUrl.images[1].width = 300 * ScaleNum
    /\ errorMsg = ""

----------------------------------------------------------------------------
(* C6.  If a composition step of a processPdf attempt fails (parse,        *)
(* export, fetch, embed, first-page access, serialize), that step leaves   *)
(* signedPdfUrl as it was and sets errorMsg to "An error occurred while    *)
(* creating the PDF.", whichever step it was; and a step that assigns      *)
(* signedPdfUrl is the return of save() in an activation whose document    *)
(* parsed, has a page and carries the drawn image.                         *)

C6_FailureIsGenericAndSilent ==
    [][/\ \A i \in Running :
            StepFails(i)
              => /\ signedPdfUrl' = signedPdfUrl
                 /\ errorMsg' = "An error occurred while creating the PDF."
                 /\ attempts' = RemoveAt(attempts, i)
       /\ (signedPdfUrl' # signedPdfUrl /\ signedPdfUrl' # Null)
            => \E i \in Running :
                 /\ attempts[i].pc = "save"
                 /\ attempts[i].doc.parseable
                 /\ attempts[i].doc.pages >= 1
                 /\ Len(attempts[i].images) = 1
                 /\ SaveSettles(i, TRUE)]_vars

\* save() threw after the image had been drawn: nothing was published.
C6_Witness ==
    /\ event = Ev("processPdf", "failed", "save")
    /\ signedPdfUrl = Null
    /\ errorMsg = MsgComposition
    /\ attempts = <<>>

----------------------------------------------------------------------------
(* C7.  Whenever signedPdfUrl is non-null, the signed bytes it refers to   *)
(* were produced from the currently loaded pdfFile (so signed_<fileName>   *)
(* is the signed version of the file named fileName), also when a file     *)
(* read completes while a processPdf attempt is in flight.                 *)

C7_SignedFromLoaded ==
    signedPdfUrl # Null => signedPdfUrl.src = pdfFile

----------------------------------------------------------------------------
(* C8.  The image drawn on the first page is placed at                     *)
(* x = pageWidth - 0.5*rasterWidth - 20, y = 20 with width 0.5*rasterWidth *)
(* and height 0.5*rasterHeight for every page width and raster size        *)
(* (W = 612, Rw = 300 gives x = 442, y = 20); x is not clamped and is      *)
(* negative whenever 0.5*rasterWidth + 20 > pageWidth.  The image's fields *)
(* are in half units, so each side of the equations is doubled.            *)

C8_PlacementGeometry ==
    \A i \in Running :
        attempts[i].pc = "save" =>
            LET W == attempts[i].doc.width
                Rw == attempts[i].raster.w
                Rh == attempts[i].raster.h
                img == attempts[i].images[1]
            IN  /\ Len(attempts[i].images) = 1
                /\ img.x = 2 * W - Rw - 40
                /\ img.y = 40
                /\ img.width = Rw
                /\ img.height = Rh
                /\ (W = 612 /\ Rw = 300) => (img.x = 2 * 442 /\ img.y = 2 * 20)
                /\ (Rw + 40 > 2 * W) => img.x < 0

\* An image drawn left of the page: 0.5*301 + 20 > 170.
C8_Witness ==
    /\ Len(attempts) = 1
    /\ attempts[1].pc = "save"
    /\ attempts[1].doc.width = 170
    /\ attempts[1].raster.w = 301
    /\ attempts[1].images[1].x = -1

----------------------------------------------------------------------------
(* C9.  The Sign control is enabled exactly when pdfFile is non-null,      *)
(* pdfFile never returns to null once a document is loaded, and errorMsg   *)
(* is never "Please upload a PDF first." in a state reachable through the  *)
(* user interface.                                                         *)

C9_NoDocumentUnreachable ==
    [][/\ SignEnabled' <=> (pdfFile' # Null)
       /\ pdfFile # Null => pdfFile' # Null
       /\ errorMsg' # "Please upload a PDF first."]_vars

\* A click on the enabled control that processPdf rejected for another
\* reason.
C9_Witness ==
    /\ event = Ev("processPdf", "emptySignature", "none")
    /\ SignEnabled
    /\ errorMsg = MsgEmptySignature
    /\ signedPdfUrl = Null

----------------------------------------------------------------------------
(* C10.  clearSignature always succeeds and is idempotent: after a call    *)
(* isEmpty() is true, after a second call in a row it is still true, and   *)
(* no call changes pdfFile, fileName, signedPdfUrl or errorMsg.            *)

C10_ClearIsIdempotent ==
    [][/\ ENABLED ClearSignature
       /\ ClearSignature => (surface'.empty /\ state' = state)]_vars

\* The second of two calls in a row, with a signed document on display.
C10_Witness ==
    /\ event = Ev("clearSignature", "again", "none")
    /\ surface.empty
    /\ pdfFile # Null
    /\ signedPdfUrl # Null

----------------------------------------------------------------------------
(* C11.  getTrimmedCanvas is invoked only while the drawing surface is     *)
(* non-empty: in every interleaving, at the step where an activation's     *)
(* document parse has resolved and the export is called, the surface has   *)
(* ink (also when the user cleared it after the isEmpty() check).          *)

C11_ExportOnInkOnly ==
    [][\A i \in Running :
         (attempts[i].doc.parseable
            /\ (LoadSettles(i, TRUE) \/ LoadSettles(i, FALSE)))
           => ~surface.empty]_vars

----------------------------------------------------------------------------
(* C12.  No two asynchronous operations are in flight at the same time:    *)
(* while a processPdf attempt is pending no read is pending with it, no    *)
(* step starts a second attempt, and no file-read completion changes       *)
(* pdfFile, fileName, signedPdfUrl or errorMsg.                            *)

C12_OneFlowAtATime ==
    [][/\ Len(attempts) + Len(reads) <= 1
       /\ Len(attempts) >= 1
            => /\ Len(attempts') <= Len(attempts)
               /\ \A i \in 1..Len(reads) : ReaderOnLoad(i) => state' = state]_vars

----------------------------------------------------------------------------
(* C13.  processPdf never changes pdfFile or fileName, whatever its        *)
(* outcome (a step that changes either is no step of processPdf), and      *)
(* every result it publishes, also when the same loaded document is signed *)
(* again, is the document the activation parsed with all its pages and     *)
(* exactly one overlay, drawn on the first page.                           *)

\* A step of processPdf: the handler up to its first await, or the code
\* after one of the awaits of an activation.
ProcessPdfStep ==
    \/ ProcessPdf
    \/ \E i \in Running : Settles(i)

C13_SigningWorksOnACopy ==
    [][/\ (pdfFile' # pdfFile \/ fileName' # fileName) => ~ProcessPdfStep
       /\ \A i \in Running :
            SaveSettles(i, TRUE)
              => /\ signedPdfUrl'.src = attempts[i].doc
                 /\ signedPdfUrl'.pages = attempts[i].doc.pages
                 /\ Len(signedPdfUrl'.images) = 1
                 /\ signedPdfUrl'.images[1].page = FirstPage]_vars

\* The loaded document has been signed once and its second signing has
\* drawn its image and awaits save().
C13_Witness ==
    /\ signedPdfUrl # Null
    /\ signedPdfUrl.src = pdfFile
    /\ Len(signedPdfUrl.images) = 1
    /\ Len(attempts) = 1
    /\ attempts[1].pc = "save"
    /\ attempts[1].doc = pdfFile
    /\ Len(attempts[1].images) = 1

----------------------------------------------------------------------------
(* C14.  Signing a parseable document that has zero pages fails inside the *)
(* handler: when embedPng has returned and the first page is asked for,    *)
(* the activation ends with errorMsg = "An error occurred while creating   *)
(* the PDF." and signedPdfUrl as it was; no activation on such a document  *)
(* gets to save() and no result is ever published from one.                *)

C14_ZeroPagesFails ==
    [][/\ \A i \in Running :
            (attempts[i].doc.parseable /\ attempts[i].doc.pages = 0
               /\ EmbedSettles(i, TRUE))
              => /\ errorMsg' = "An error occurred while creating the PDF."
                 /\ signedPdfUrl' = signedPdfUrl
                 /\ attempts' = RemoveAt(attempts, i)
       /\ \A i \in 1..Len(attempts') :
            attempts'[i].doc.pages = 0 => attempts'[i].pc # "save"
       /\ signedPdfUrl' # Null => signedPdfUrl'.src.pages >= 1]_vars

\* The loaded document parses, has no page, and its signing has just failed
\* at the first page.
C14_Witness ==
    /\ event = Ev("processPdf", "failed", "firstPage")
    /\ pdfFile # Null
    /\ pdfFile.parseable
    /\ pdfFile.pages = 0
    /\ signedPdfUrl = Null
    /\ errorMsg = MsgComposition
    /\ attempts = <<>>

----------------------------------------------------------------------------
(* C15.  The controller has no terminal or stuck state.  Every step of an  *)
(* activation takes it to its next await or ends it with exactly one       *)
(* outcome (a result published and the message cleared, or the generic     *)
(* message and no result assigned); a valid file can always be selected    *)
(* and, once a document is loaded, a sign attempt can always be made (up   *)
(* to the model's bounds on pending reads and activations); and, every     *)
(* awaited call returning or throwing, whenever an activation is pending   *)
(* one eventually resolves as Signed or Failed.                            *)

\* The position of an await in processPdf.
AwaitRank(pc) ==
    CASE pc = "load" -> 1
      [] pc = "fetch" -> 2
      [] pc = "embed" -> 3
      [] pc = "save" -> 4

\* Activation i ends as Signed or as Failed, not both.
EndsSigned(i) ==
    /\ attempts' = RemoveAt(attempts, i)
    /\ signedPdfUrl' = SignedBlob(attempts[i])
    /\ errorMsg' = ""

EndsFailed(i) ==
    /\ attempts' = RemoveAt(attempts, i)
    /\ signedPdfUrl' = signedPdfUrl
    /\ errorMsg' = "An error occurred while creating the PDF."

MovesOn(i) ==
    /\ Len(attempts') = Len(attempts)
    /\ attempts'[i].doc = attempts[i].doc
    /\ AwaitRank(attempts'[i].pc) = AwaitRank(attempts[i].pc) + 1

\* The user can start over from this state.
Reenterable ==
    /\ \A f \in FileCatalog :
         (f.type = PdfMime /\ Len(reads) < MaxReads)
           => ENABLED HandleFileChange(<<f>>)
    /\ (pdfFile # Null /\ Len(attempts) < MaxAttempts) => ENABLED ClickSign
    /\ \A i \in Running : ENABLED Settles(i)

Resolved ==
    /\ event.op = "processPdf"
    /\ event.outcome \in {"signed", "failed"}

C15_ResolvesAndReenters ==
    /\ [][\A i \in Running :
            Settles(i)
              => \/ MovesOn(i)
                 \/ EndsSigned(i) /\ ~EndsFailed(i) /\ Resolved'
                 \/ EndsFailed(i) /\ ~EndsSigned(i) /\ Resolved']_vars
    /\ []Reenterable
    /\ (Len(attempts) > 0) ~> Resolved

\* An attempt on a document that does not parse has resolved as Failed and
\* both a new selection and a new attempt are possible.
C15_Witness ==
    /\ event = Ev("processPdf", "failed", "parse")
    /\ attempts = <<>>
    /\ reads = <<>>
    /\ pdfFile # Null
    /\ errorMsg = MsgComposition
    /\ ENABLED ClickSign
    /\ \E f \in FileCatalog : f.type = PdfMime /\ ENABLED HandleFileChange(<<f>>)

----------------------------------------------------------------------------
(* File selections and completed reads alone, with room for two reads at   *)
(* once: the user picks a file while the read of the previous pick has not *)
(* completed.                                                              *)

NextReads ==
    \/ \E files \in Selections : HandleFileChangeWithin(files, MaxPendingReads)
    \/ \E i \in 1..MaxPendingReads : ReaderOnLoad(i)

SpecReads == Init /\ [][NextReads]_vars

----------------------------------------------------------------------------
(* C16.  pdfFile and fileName always belong to the same selected file, and *)
(* once every pending file read has completed (a read completes and leaves *)
(* none pending) the loaded document is the most recently selected valid   *)
(* file, whatever the order in which the reads complete.                   *)

C16_LatestSelectionWins ==
    [][/\ \/ pdfFile' = Null /\ fileName' = ""
          \/ \E f \in FileCatalog : pdfFile' = f.bytes /\ fileName' = f.name
       /\ \A i \in 1..Len(reads) :
            (ReaderOnLoad(i) /\ reads' = <<>>)
              => (pdfFile' = newest.bytes /\ fileName' = newest.name)]_vars

====
